---- MODULE Spec2Model ----
(***************************************************************************)
(* A model of packages/snaps-cli/src/cmds/watch/watchHandler.ts: the       *)
(* `watch` command, its rebuild pipeline `buildSnap` and the handlers it   *)
(* registers on the chokidar watcher.                                      *)
(*                                                                         *)
(* Strings of the program (paths, glob patterns) are sequences of          *)
(* one-character strings, so that substring, lastIndexOf, startsWith and   *)
(* glob matching are computed as the code computes them.                   *)
(***************************************************************************)
EXTENDS Naturals, Sequences, FiniteSets, TLC

\* ------------------------------------------------------------------ bounds

\* The most pipeline runs (calls of buildSnap) of one session.
MaxRuns == 2
\* The most watcher occurrences (file events, watcher errors) after setup.
MaxEvents == 2

\* The longest source path of the sessions that check the derivation of rootDir.
MaxSrcLen == 5

\* ----------------------------------------------------------------- strings

NoPath == <<>>

S_src == <<"s", "r", "c">>
S_dist == <<"d", "i", "s", "t">>
S_out == <<"o", "u", "t">>
S_nm == <<"n", "o", "d", "e", "_", "m", "o", "d", "u", "l", "e", "s">>
S_test == <<"t", "e", "s", "t">>
S_tests == <<"t", "e", "s", "t", "s">>
S_ijs == <<"i", ".", "j", "s">>
S_bjs == <<"b", ".", "j", "s">>
S_env == <<".", "e", "n", "v">>
S_itestjs == <<"i", ".", "t", "e", "s", "t", ".", "j", "s">>
S_atestts == <<"a", ".", "t", "e", "s", "t", ".", "t", "s">>
S_bundlejs == <<"b", "u", "n", "d", "l", "e", ".", "j", "s">>

\* The segments of a path joined by "/".
RECURSIVE Join(_)
Join(segs) ==
    IF segs = <<>> THEN <<>>
    ELSE IF Len(segs) = 1 THEN segs[1]
    ELSE segs[1] \o <<"/">> \o Join(Tail(segs))

\* String.prototype.includes for a one-character needle.
Includes(str, ch) == \E i \in 1..Len(str) : str[i] = ch

\* String.prototype.lastIndexOf for a one-character needle, as a 0-based index
\* (the caller tests includes first, so the needle occurs).
LastIndexOf(str, ch) ==
    (CHOOSE i \in 1..Len(str) :
        str[i] = ch /\ \A j \in (i + 1)..Len(str) : str[j] # ch) - 1

\* String.prototype.substring(from, to), 0-based, `to` exclusive.
Substring(str, from, to) == SubSeq(str, from + 1, to)

\* String.prototype.startsWith.
StartsWith(str, prefix) ==
    Len(str) >= Len(prefix) /\ SubSeq(str, 1, Len(prefix)) = prefix

\* String.prototype.split("/").
RECURSIVE Split(_)
Split(str) ==
    IF ~Includes(str, "/") THEN <<str>>
    ELSE LET i == CHOOSE k \in 1..Len(str) :
                     str[k] = "/" /\ \A j \in 1..(k - 1) : str[j] # "/"
         IN <<SubSeq(str, 1, i - 1)>> \o Split(SubSeq(str, i + 1, Len(str)))

\* ------------------------------------------------------------ glob matching

\* One path segment against one pattern segment: "*" stands for any run of
\* characters of the segment, every other character for itself.
RECURSIVE MatchSegment(_, _)
MatchSegment(pat, seg) ==
    IF pat = <<>> THEN seg = <<>>
    ELSE IF Head(pat) = "*"
         THEN \/ MatchSegment(Tail(pat), seg)
              \/ seg # <<>> /\ MatchSegment(pat, Tail(seg))
    ELSE /\ seg # <<>>
         /\ Head(pat) = Head(seg)
         /\ MatchSegment(Tail(pat), Tail(seg))

\* The segments of a path against the segments of a pattern: a "**" segment
\* stands for any number of path segments, none included.
RECURSIVE MatchSegments(_, _)
MatchSegments(pats, segs) ==
    IF pats = <<>> THEN segs = <<>>
    ELSE IF Head(pats) = <<"*", "*">>
         THEN \/ MatchSegments(Tail(pats), segs)
              \/ segs # <<>> /\ MatchSegments(pats, Tail(segs))
    ELSE /\ segs # <<>>
         /\ MatchSegment(Head(pats), Head(segs))
         /\ MatchSegments(Tail(pats), Tail(segs))

GlobMatch(pattern, path) == MatchSegments(Split(pattern), Split(path))

\* -------------------------------------------------------------------- argv

\* The source paths, output directories and output file names a session may be
\* started with; outfileName NoPath stands for "not supplied".
SrcChoices == {S_ijs, Join(<<S_src, S_ijs>>)}
DistChoices == {S_dist, Join(<<S_src, S_out>>)}
OutfileNameChoices == {NoPath, S_bjs}

\* A project with its entry file at the top and the default output, and one
\* with its entry file and its output directory under src/.
Layouts ==
    { [src |-> S_ijs, dist |-> S_dist, outfileName |-> NoPath],
      [src |-> Join(<<S_src, S_ijs>>), dist |-> Join(<<S_src, S_out>>),
       outfileName |-> S_bjs] }

Argv ==
    { a \in [src : SrcChoices, dist : DistChoices,
             outfileName : OutfileNameChoices,
             manifest : BOOLEAN, eval : BOOLEAN, serve : BOOLEAN] :
        [src |-> a.src, dist |-> a.dist, outfileName |-> a.outfileName]
            \in Layouts }

\* RootDirOf that leaves the last separator out.
RootDirOf_exclusive(src) ==
    IF Includes(src, "/")
    THEN Substring(src, 0, LastIndexOf(src, "/"))
    ELSE <<".">>

\* const rootDir = src.includes('/') ? src.substring(0, src.lastIndexOf('/') + 1) : '.'
RootDirOf(src) ==
    IF Includes(src, "/")
    THEN Substring(src, 0, LastIndexOf(src, "/") + 1)
    ELSE <<".">>

\* getOutfilePath(dist, outfileName): the output directory joined with the
\* output file name, bundle.js when none was supplied.
getOutfilePath(dist, outfileName) ==
    Join(<<dist, IF outfileName = NoPath THEN S_bundlejs ELSE outfileName>>)

\* ------------------------------------------------------------ ignore rules

\* IgnoredGlobs without the entry of the output directory.
IgnoredGlobs_noDist(dist) ==
    { Join(<<<<"*", "*">>, S_nm, <<"*", "*">>>>),
      Join(<<<<"*", "*">>, S_test, <<"*", "*">>>>),
      Join(<<<<"*", "*">>, S_tests, <<"*", "*">>>>),
      Join(<<<<"*", "*">>, <<"*", ".", "t", "e", "s", "t", ".", "j", "s">>>>),
      Join(<<<<"*", "*">>, <<"*", ".", "t", "e", "s", "t", ".", "t", "s">>>>) }

\* The glob strings of the `ignored` option.
IgnoredGlobs(dist) ==
    { Join(<<<<"*", "*">>, S_nm, <<"*", "*">>>>),
      <<"*", "*", "/">> \o dist \o <<"/", "*", "*">>,
      Join(<<<<"*", "*">>, S_test, <<"*", "*">>>>),
      Join(<<<<"*", "*">>, S_tests, <<"*", "*">>>>),
      Join(<<<<"*", "*">>, <<"*", ".", "t", "e", "s", "t", ".", "j", "s">>>>),
      Join(<<<<"*", "*">>, <<"*", ".", "t", "e", "s", "t", ".", "t", "s">>>>) }

\* The function of the `ignored` option: (str) => str !== '.' && str.startsWith('.')
IgnoredFn(str) == str # <<".">> /\ StartsWith(str, <<".">>)

\* A path the watcher never reports: it matches one entry of `ignored`.
Ignored(dist, path) ==
    \/ \E g \in IgnoredGlobs(dist) : GlobMatch(g, path)
    \/ IgnoredFn(path)

\* ignoreInitial left at the watcher's default.
ignoreInitial_default == FALSE

\* The `ignoreInitial` option.
ignoreInitial == TRUE

\* The files a project tree may hold.
FsPaths ==
    { Join(<<S_src, S_ijs>>),
      Join(<<S_src, S_env>>),
      S_env,
      Join(<<S_dist, S_bundlejs>>),
      Join(<<S_src, S_out, S_bjs>>),
      Join(<<S_src, S_nm, S_ijs>>),
      Join(<<S_test, S_ijs>>),
      Join(<<S_src, S_tests, S_ijs>>),
      Join(<<S_src, S_itestjs>>),
      S_atestts }

\* The tree of a project that was not built yet and has no test file beside
\* its entry file.
FreshTree ==
    FsPaths \ { Join(<<S_dist, S_bundlejs>>),
                Join(<<S_src, S_out, S_bjs>>),
                Join(<<S_src, S_itestjs>>) }

\* A project of one source file.
SmallTree == {Join(<<S_src, S_ijs>>)}

\* The paths under the watched root: the watcher reports a path as the root
\* joined with the path below it, and the root "." as the bare relative path.
UnderRoot(root, path) == root = <<".">> \/ StartsWith(path, root)

\* For each source path and output directory, the paths of the tree the watcher
\* can report (tabulated once: @@ yields the table itself).
Reportable ==
    [sd \in SrcChoices \X DistChoices |->
        {p \in FsPaths : UnderRoot(RootDirOf(sd[1]), p) /\ ~Ignored(sd[2], p)}]
    @@ <<>>

\* For each source path and output directory, the paths of the tree the watcher
\* keeps silent about.
Silenced ==
    [sd \in SrcChoices \X DistChoices |->
        {p \in FsPaths : UnderRoot(RootDirOf(sd[1]), p) /\ Ignored(sd[2], p)}]
    @@ <<>>

\* ------------------------------------------------------------------- state

VARIABLES
    argv,        \* the arguments of this invocation of watch
    validations, \* the calls of the validators, in call order, with their outcome
    tree,        \* for each file the project may hold, whether it exists
    pc,          \* where the body of watch stands
    rootDir,     \* const rootDir (NoPath until computed)
    outfilePath, \* const outfilePath (NoPath until computed)
    session,     \* "Initializing", "ReadyPending" or "Active"
    runs,        \* the calls of buildSnap, in call order
    readyChain,  \* where the promise chain of the 'ready' handler stands
    serveCalls,  \* how many times serve(argv) was called
    server,      \* "none", "starting", "running" or "failed"
    artifact,    \* the run whose bundle was last written to outfilePath, 0 if none
    log,         \* the lines given to logInfo and logError, in order
    nEvents,     \* how many watcher occurrences happened
    lastEvent    \* the latest watcher occurrence: its kind and path

vars ==
    <<argv, validations, tree, pc, rootDir, outfilePath, session, runs, readyChain,
      serveCalls, server, artifact, log, nEvents, lastEvent>>

Info(text, path) == [level |-> "info", text |-> text, path |-> path]
Error(text, path) == [level |-> "error", text |-> text, path |-> path]

\* BuildError that never names the path.
BuildError_initialOnly(path) == Error("Error during initial build.", NoPath)

\* The message of the catch block of buildSnap.
BuildError(path) ==
    IF path = NoPath
    THEN Error("Error during initial build.", NoPath)
    ELSE Error("Error while processing", path)

\* The state when watch is called, for the arguments and the project given.
Start(args, files, present) ==
    /\ argv \in args
    /\ validations = <<>>
    /\ tree = [p \in files |-> p \in present]
    /\ pc = "validateOutfileName"
    /\ rootDir = NoPath
    /\ outfilePath = NoPath
    /\ session = "Initializing"
    /\ runs = <<>>
    /\ readyChain = "none"
    /\ serveCalls = 0
    /\ server = "none"
    /\ artifact = 0
    /\ log = <<>>
    /\ nEvents = 0
    /\ lastEvent = [kind |-> "none", path |-> NoPath]

\* ------------------------------------------------------------------- setup

\* A call of a validator and whether it found its argument valid.
Validated(fn, valid) == [fn |-> fn, valid |-> valid]

\* if (outfileName) { validateOutfileName(outfileName); }
ValidateOutfileName ==
    /\ pc = "validateOutfileName"
    /\ IF argv.outfileName = NoPath
       THEN /\ pc' = "validateFilePath"
            /\ validations' = validations
       ELSE \E valid \in BOOLEAN :
            /\ validations' =
                   Append(validations, Validated("validateOutfileName", valid))
            /\ pc' = IF valid THEN "validateFilePath" ELSE "threw"
    /\ UNCHANGED <<argv, tree, rootDir, outfilePath, session, runs, readyChain,
                   serveCalls, server, artifact, log, nEvents, lastEvent>>

\* ValidateFilePath whose rejection is not awaited: watch goes on.
ValidateFilePath_notAwaited ==
    /\ pc = "validateFilePath"
    /\ \E valid \in BOOLEAN :
        /\ validations' = Append(validations, Validated("validateFilePath", valid))
        /\ pc' = "validateDirPath"
    /\ UNCHANGED <<argv, tree, rootDir, outfilePath, session, runs, readyChain,
                   serveCalls, server, artifact, log, nEvents, lastEvent>>

\* await validateFilePath(src);
ValidateFilePath ==
    /\ pc = "validateFilePath"
    /\ \E valid \in BOOLEAN :
        /\ validations' = Append(validations, Validated("validateFilePath", valid))
        /\ pc' = IF valid THEN "validateDirPath" ELSE "threw"
    /\ UNCHANGED <<argv, tree, rootDir, outfilePath, session, runs, readyChain,
                   serveCalls, server, artifact, log, nEvents, lastEvent>>

\* await validateDirPath(dist, true);
ValidateDirPath ==
    /\ pc = "validateDirPath"
    /\ \E valid \in BOOLEAN :
        /\ validations' = Append(validations, Validated("validateDirPath", valid))
        /\ pc' = IF valid THEN "watch" ELSE "threw"
    /\ UNCHANGED <<argv, tree, rootDir, outfilePath, session, runs, readyChain,
                   serveCalls, server, artifact, log, nEvents, lastEvent>>

\* Everything after the validations: the two paths are computed, the watcher is
\* created with its handlers, and watch returns.
Subscribe ==
    /\ pc = "watch"
    /\ pc' = "returned"
    /\ rootDir' = RootDirOf(argv.src)
    /\ outfilePath' = getOutfilePath(argv.dist, argv.outfileName)
    /\ session' = "ReadyPending"
    /\ log' = Append(log, Info("Watching", rootDir'))
    /\ UNCHANGED <<argv, validations, tree, runs, readyChain, serveCalls,
                   server, artifact, nEvents, lastEvent>>

\* ---------------------------------------------------------------- buildSnap

Ev(step, ev) == [step |-> step, ev |-> ev]

\* No continuation of the 'ready' promise chain is waiting in the microtask
\* queue: the event loop is free to deliver a watcher event or the completion
\* of a collaborator.
Idle == readyChain # "then"

\* AfterBundle without the test of the manifest flag.
AfterBundle_noFlagTest == "manifest"

\* The step buildSnap goes to when the bundle resolved.
AfterBundle ==
    IF argv.manifest THEN "manifest" ELSE IF argv.eval THEN "eval" ELSE "done"

\* The step buildSnap goes to when manifestHandler resolved.
AfterManifest == IF argv.eval THEN "eval" ELSE "done"

\* The call buildSnap(path, logMessage) up to its first await: the message is
\* logged when given, loadConfig() is read and bundle(...) is called. A throw of
\* loadConfig() lands in the catch block and ends the run.
buildSnap(trigger, path, logMessage, configLoads) ==
    /\ runs' = Append(runs,
          [trigger |-> trigger,
           path |-> path,
           pc |-> IF configLoads THEN "bundle" ELSE "failed",
           hist |-> (IF logMessage # "undefined"
                     THEN <<Ev("logMessage", "logInfo")>> ELSE <<>>)
                    \o (IF configLoads
                        THEN <<Ev("bundle", "start")>>
                        ELSE <<Ev("loadConfig", "throw"), Ev("catch", "logError")>>)])
    /\ log' = log
              \o (IF logMessage # "undefined"
                  THEN <<Info(logMessage, path)>> ELSE <<>>)
              \o (IF configLoads THEN <<>> ELSE <<BuildError(path)>>)

\* ChainAfter for a buildSnap that rethrows: the promise of a failed 'ready' run
\* rejects, the .then callback is skipped and the .catch callback runs.
ChainAfter_rethrows(r, next) ==
    IF runs[r].trigger = "ready" /\ next = "done" THEN "then"
    ELSE IF runs[r].trigger = "ready" /\ next = "failed" THEN "caught"
    ELSE readyChain

\* The promise of the 'ready' run settles when that run ends: its .then
\* callback is queued.
ChainAfter(r, next) ==
    IF runs[r].trigger = "ready" /\ next \in {"done", "failed"}
    THEN "then" ELSE readyChain

\* An awaited step of run r resolved: buildSnap goes on to the next step.
Resolve(r, step, next) ==
    /\ runs' = [runs EXCEPT
          ![r].pc = next,
          ![r].hist = @ \o <<Ev(step, "ok")>>
                        \o (IF next = "done" THEN <<>> ELSE <<Ev(next, "start")>>)]
    /\ readyChain' = ChainAfter(r, next)

\* Reject with a catch that logs and lets buildSnap go on with the next step.
Reject_goesOn(r, step) ==
    LET next == IF step = "bundle" THEN AfterBundle
                ELSE IF step = "manifest" THEN AfterManifest
                ELSE "failed"
    IN /\ runs' = [runs EXCEPT
             ![r].pc = next,
             ![r].hist = @ \o <<Ev(step, "fail"), Ev("catch", "logError")>>
                           \o (IF next \in {"done", "failed"} THEN <<>>
                               ELSE <<Ev(next, "start")>>)]
       /\ log' = Append(log, BuildError(runs[r].path))
       /\ readyChain' = ChainAfter(r, next)
       /\ session' = session

\* Reject without the catch block: the rejection leaves buildSnap and, unhandled,
\* ends the process.
Reject_unhandled(r, step) ==
    /\ runs' = [runs EXCEPT
          ![r].pc = "failed",
          ![r].hist = @ \o <<Ev(step, "fail")>>]
    /\ log' = log
    /\ readyChain' = readyChain
    /\ session' = "Stopped"

\* Reject with a retry: the catch block logs and calls buildSnap again.
Reject_retries(r, step) ==
    /\ runs' = (IF Len(runs) < MaxRuns
                THEN Append(runs, [trigger |-> runs[r].trigger,
                                   path |-> runs[r].path,
                                   pc |-> "bundle",
                                   hist |-> <<Ev("bundle", "start")>>])
                ELSE runs)
    /\ log' = Append(log, BuildError(runs[r].path))
    /\ readyChain' = readyChain
    /\ session' = session

\* Reject with a catch block that logs and rethrows: the promise of buildSnap
\* rejects and the .catch of the handler logs the failure again.
Reject_rethrows(r, step) ==
    /\ runs' = [runs EXCEPT
          ![r].pc = "failed",
          ![r].hist = @ \o <<Ev(step, "fail"), Ev("catch", "logError"),
                              Ev("handler.catch", "logError")>>]
    /\ log' = log \o <<BuildError(runs[r].path), BuildError(runs[r].path)>>
    /\ readyChain' = ChainAfter(r, "failed")
    /\ session' = session

\* An awaited step of run r rejected: the catch block logs it and buildSnap
\* returns normally, so nothing reaches the caller or the process.
Reject(r, step) ==
    /\ runs' = [runs EXCEPT
          ![r].pc = "failed",
          ![r].hist = @ \o <<Ev(step, "fail"), Ev("catch", "logError")>>]
    /\ log' = Append(log, BuildError(runs[r].path))
    /\ readyChain' = ChainAfter(r, "failed")
    /\ session' = session

\* BundleResolve of runs that are serialized: a bundle resolves only when no
\* earlier run still waits for its own.
BundleResolve_inCallOrder(r) ==
    /\ Idle
    /\ runs[r].pc = "bundle"
    /\ \A q \in 1..(r - 1) : runs[q].pc # "bundle"
    /\ Resolve(r, "bundle", AfterBundle)
    /\ artifact' = r
    /\ UNCHANGED <<argv, validations, tree, pc, rootDir, outfilePath, session,
                   serveCalls, server, log, nEvents, lastEvent>>

\* await bundle(src, outfilePath, argv, ...) resolved: the bundle is at
\* outfilePath.
BundleResolve(r) ==
    /\ Idle
    /\ runs[r].pc = "bundle"
    /\ Resolve(r, "bundle", AfterBundle)
    /\ artifact' = r
    /\ UNCHANGED <<argv, validations, tree, pc, rootDir, outfilePath, session,
                   serveCalls, server, log, nEvents, lastEvent>>

BundleReject(r) ==
    /\ Idle
    /\ runs[r].pc = "bundle"
    /\ Reject(r, "bundle")
    /\ UNCHANGED <<argv, validations, tree, pc, rootDir, outfilePath,
                   serveCalls, server, artifact, nEvents, lastEvent>>

\* await manifestHandler(argv)
ManifestResolve(r) ==
    /\ Idle
    /\ runs[r].pc = "manifest"
    /\ Resolve(r, "manifest", AfterManifest)
    /\ UNCHANGED <<argv, validations, tree, pc, rootDir, outfilePath, session,
                   serveCalls, server, artifact, log, nEvents, lastEvent>>

ManifestReject(r) ==
    /\ Idle
    /\ runs[r].pc = "manifest"
    /\ Reject(r, "manifest")
    /\ UNCHANGED <<argv, validations, tree, pc, rootDir, outfilePath,
                   serveCalls, server, artifact, nEvents, lastEvent>>

\* await evalHandler({ ...argv, bundle: outfilePath })
EvalResolve(r) ==
    /\ Idle
    /\ runs[r].pc = "eval"
    /\ Resolve(r, "eval", "done")
    /\ UNCHANGED <<argv, validations, tree, pc, rootDir, outfilePath, session,
                   serveCalls, server, artifact, log, nEvents, lastEvent>>

EvalReject(r) ==
    /\ Idle
    /\ runs[r].pc = "eval"
    /\ Reject(r, "eval")
    /\ UNCHANGED <<argv, validations, tree, pc, rootDir, outfilePath,
                   serveCalls, server, artifact, nEvents, lastEvent>>

\* ----------------------------------------------------------------- handlers

\* A file of the project that exists, and one that does not.
Exists(path) == path \in DOMAIN tree /\ tree[path]
Absent(path) == path \in DOMAIN tree /\ ~tree[path]

\* The key of this session in the tables Reportable and Silenced.
Layout == <<argv.src, argv.dist>>

Occurs(kind, path) ==
    /\ nEvents < MaxEvents
    /\ nEvents' = nEvents + 1
    /\ lastEvent' = [kind |-> kind, path |-> path]

\* .on('ready', () => { buildSnap().then(...).catch(...) }): the watcher ends
\* its initial scan and the first run is started.
OnReady ==
    /\ pc = "returned"
    /\ session = "ReadyPending"
    /\ session' = "Active"
    /\ lastEvent' = [kind |-> "ready", path |-> NoPath]
    /\ \E configLoads \in BOOLEAN :
        /\ buildSnap("ready", NoPath, "undefined", configLoads)
        /\ readyChain' = IF configLoads THEN "buildSnap" ELSE "then"
    /\ UNCHANGED <<argv, validations, tree, pc, rootDir, outfilePath,
                   serveCalls, server, artifact, nEvents>>

\* ReadyThen that serves only when the first run went through.
ReadyThen_onlyOnSuccess ==
    /\ readyChain = "then"
    /\ IF argv.serve /\ runs[1].pc = "done"
       THEN /\ serveCalls' = serveCalls + 1
            /\ server' = "starting"
            /\ readyChain' = "serve"
       ELSE /\ readyChain' = "fulfilled"
            /\ UNCHANGED <<serveCalls, server>>
    /\ UNCHANGED <<argv, validations, tree, pc, rootDir, outfilePath, session,
                   runs, artifact, log, nEvents, lastEvent>>

\* ReadyThen without the test of the serve flag.
ReadyThen_noFlagTest ==
    /\ readyChain = "then"
    /\ serveCalls' = serveCalls + 1
    /\ server' = "starting"
    /\ readyChain' = "serve"
    /\ UNCHANGED <<argv, validations, tree, pc, rootDir, outfilePath, session,
                   runs, artifact, log, nEvents, lastEvent>>

\* .then(() => { if (shouldServe) { return serve(argv); } return undefined; })
ReadyThen ==
    /\ readyChain = "then"
    /\ IF argv.serve
       THEN /\ serveCalls' = serveCalls + 1
            /\ server' = "starting"
            /\ readyChain' = "serve"
       ELSE /\ readyChain' = "fulfilled"
            /\ UNCHANGED <<serveCalls, server>>
    /\ UNCHANGED <<argv, validations, tree, pc, rootDir, outfilePath, session,
                   runs, artifact, log, nEvents, lastEvent>>

\* The promise of serve(argv) resolved.
ServeResolve ==
    /\ readyChain = "serve"
    /\ readyChain' = "fulfilled"
    /\ server' = "running"
    /\ UNCHANGED <<argv, validations, tree, pc, rootDir, outfilePath, session,
                   runs, serveCalls, artifact, log, nEvents, lastEvent>>

\* ServeReject of a chain without .catch: the rejection is unhandled and ends
\* the process.
ServeReject_unhandled ==
    /\ readyChain = "serve"
    /\ readyChain' = "rejected"
    /\ server' = "failed"
    /\ session' = "Stopped"
    /\ UNCHANGED <<argv, validations, tree, pc, rootDir, outfilePath, runs,
                   serveCalls, artifact, log, nEvents, lastEvent>>

\* The promise of serve(argv) rejected:
\* .catch((error) => { logError('Error during initial build.', error); })
ServeReject ==
    /\ readyChain = "serve"
    /\ readyChain' = "caught"
    /\ server' = "failed"
    /\ log' = Append(log, Error("Error during initial build.", NoPath))
    /\ UNCHANGED <<argv, validations, tree, pc, rootDir, outfilePath, session,
                   runs, serveCalls, artifact, nEvents, lastEvent>>

\* .on('add', (path) => { buildSnap(path, `File added: ${path}`).catch(...) })
AddHandler(path) ==
    /\ Len(runs) < MaxRuns
    /\ \E configLoads \in BOOLEAN :
        buildSnap("add", path, "File added", configLoads)
    /\ UNCHANGED <<argv, validations, pc, rootDir, outfilePath, session,
                   readyChain, serveCalls, server, artifact>>

\* ChangeHandler behind a single-flight guard: the event is dropped while a run
\* is in flight.
ChangeHandler_singleFlight(path) ==
    /\ Len(runs) < MaxRuns
    /\ IF \E r \in 1..Len(runs) : runs[r].pc \notin {"done", "failed"}
       THEN UNCHANGED <<runs, log>>
       ELSE \E configLoads \in BOOLEAN :
                buildSnap("change", path, "File changed", configLoads)
    /\ UNCHANGED <<argv, validations, pc, rootDir, outfilePath, session,
                   readyChain, serveCalls, server, artifact>>

\* ChangeHandler that restarts the build: the runs in flight are aborted and a
\* new one is started.
ChangeHandler_restarts(path) ==
    /\ Len(runs) < MaxRuns
    /\ runs' = Append([r \in 1..Len(runs) |->
                          IF runs[r].pc \in {"done", "failed"} THEN runs[r]
                          ELSE [runs[r] EXCEPT !.pc = "failed"]],
                      [trigger |-> "change", path |-> path, pc |-> "bundle",
                       hist |-> <<Ev("logMessage", "logInfo"),
                                  Ev("bundle", "start")>>])
    /\ log' = Append(log, Info("File changed", path))
    /\ UNCHANGED <<argv, validations, pc, rootDir, outfilePath, session,
                   readyChain, serveCalls, server, artifact>>

\* .on('change', (path) => { buildSnap(path, `File changed: ${path}`).catch(...) })
ChangeHandler(path) ==
    /\ Len(runs) < MaxRuns
    /\ \E configLoads \in BOOLEAN :
        buildSnap("change", path, "File changed", configLoads)
    /\ UNCHANGED <<argv, validations, pc, rootDir, outfilePath, session,
                   readyChain, serveCalls, server, artifact>>

\* UnlinkHandler that rebuilds like the other file handlers.
UnlinkHandler_rebuilds(path) ==
    /\ Len(runs) < MaxRuns
    /\ \E configLoads \in BOOLEAN :
        buildSnap("unlink", path, "File removed", configLoads)
    /\ UNCHANGED <<argv, validations, pc, rootDir, outfilePath, session,
                   readyChain, serveCalls, server, artifact>>

\* .on('unlink', (path) => logInfo(`File removed: ${path}`))
UnlinkHandler(path) ==
    /\ log' = Append(log, Info("File removed", path))
    /\ UNCHANGED <<argv, validations, pc, rootDir, outfilePath, session, runs,
                   readyChain, serveCalls, server, artifact>>

\* ErrorHandler that rethrows: the error leaves the emitter and ends the process.
ErrorHandler_rethrows ==
    /\ log' = Append(log, Error("Watcher error", NoPath))
    /\ session' = "Stopped"
    /\ UNCHANGED <<argv, validations, pc, rootDir, outfilePath, runs,
                   readyChain, serveCalls, server, artifact>>

\* .on('error', (error) => { logError(`Watcher error: ${error.message}`, error); })
ErrorHandler ==
    /\ log' = Append(log, Error("Watcher error", NoPath))
    /\ UNCHANGED <<argv, validations, pc, rootDir, outfilePath, session, runs,
                   readyChain, serveCalls, server, artifact>>

\* ------------------------------------------------------------------ watcher

\* During its initial scan the watcher finds a file of the tree. It emits 'add'
\* for it only if the file is not ignored and ignoreInitial is off.
InitialScan(path) ==
    /\ session = "ReadyPending"
    /\ Exists(path)
    /\ path \in Reportable[Layout] \cup Silenced[Layout]
    /\ Occurs("initial", path)
    /\ tree' = tree
    /\ IF ignoreInitial \/ path \in Silenced[Layout]
       THEN UNCHANGED <<argv, validations, pc, rootDir, outfilePath, session,
                        runs, readyChain, serveCalls, server, artifact, log>>
       ELSE AddHandler(path)

\* After 'ready', a file that is not ignored appears, changes or goes away.
OnAdd(path) ==
    /\ Idle
    /\ session = "Active"
    /\ Absent(path)
    /\ path \in Reportable[Layout]
    /\ Occurs("add", path)
    /\ tree' = [tree EXCEPT ![path] = TRUE]
    /\ AddHandler(path)

OnChange(path) ==
    /\ Idle
    /\ session = "Active"
    /\ Exists(path)
    /\ path \in Reportable[Layout]
    /\ Occurs("change", path)
    /\ tree' = tree
    /\ ChangeHandler(path)

OnUnlink(path) ==
    /\ Idle
    /\ session = "Active"
    /\ Exists(path)
    /\ path \in Reportable[Layout]
    /\ Occurs("unlink", path)
    /\ tree' = [tree EXCEPT ![path] = FALSE]
    /\ UnlinkHandler(path)

\* After 'ready', an ignored file appears, changes or goes away: the watcher
\* emits nothing.
Unreported(kind, path) ==
    /\ Idle
    /\ session = "Active"
    /\ path \in Silenced[Layout]
    /\ IF kind = "add" THEN Absent(path) ELSE Exists(path)
    /\ Occurs(kind, path)
    /\ tree' = [tree EXCEPT ![path] = (kind # "unlink")]
    /\ UNCHANGED <<argv, validations, pc, rootDir, outfilePath, session, runs,
                   readyChain, serveCalls, server, artifact, log>>

\* The watcher reports an error of its own.
OnError ==
    /\ Idle
    /\ session \in {"ReadyPending", "Active"}
    /\ Occurs("error", NoPath)
    /\ tree' = tree
    /\ ErrorHandler

\* ------------------------------------------------------------ specification

Next ==
    \/ ValidateOutfileName
    \/ ValidateFilePath
    \/ ValidateDirPath
    \/ Subscribe
    \/ OnReady
    \/ ReadyThen
    \/ ServeResolve
    \/ ServeReject
    \/ \E r \in 1..Len(runs) : BundleResolve(r)
    \/ \E r \in 1..Len(runs) : BundleReject(r)
    \/ \E r \in 1..Len(runs) : ManifestResolve(r)
    \/ \E r \in 1..Len(runs) : ManifestReject(r)
    \/ \E r \in 1..Len(runs) : EvalResolve(r)
    \/ \E r \in 1..Len(runs) : EvalReject(r)
    \/ \E p \in FsPaths : OnAdd(p)
    \/ \E p \in FsPaths : OnChange(p)
    \/ \E p \in FsPaths : OnUnlink(p)
    \/ OnError

\* Sessions of every flag combination over a small project: the steps of the
\* program, with the file events that reach a handler.
Init == Start({a \in Argv : a.src = S_ijs}, SmallTree, SmallTree)

Spec == Init /\ [][Next]_vars

\* Sessions started with the serve flag. The microtask queue is drained before
\* the event loop goes on: the .then callback of the 'ready' chain runs once the
\* promise of buildSnap settled.
FairInit ==
    Start({a \in Argv : a.src = S_ijs /\ a.serve}, SmallTree, SmallTree)

FairSpec == FairInit /\ [][Next]_vars /\ WF_vars(ReadyThen)

\* The awaited step of run r settles, one way or the other.
Settle(r) ==
    /\ r \in 1..Len(runs)
    /\ \/ BundleResolve(r) \/ BundleReject(r)
       \/ ManifestResolve(r) \/ ManifestReject(r)
       \/ EvalResolve(r) \/ EvalReject(r)

\* Sessions with every optional step on, in which every call of a collaborator
\* terminates: the promise a run awaits settles, and the microtask queue is
\* drained.
LiveInit ==
    Start({a \in Argv : a.src = S_ijs /\ a.manifest /\ a.eval /\ a.serve},
          SmallTree, SmallTree)

LiveSpec ==
    /\ LiveInit /\ [][Next]_vars
    /\ WF_vars(ReadyThen)
    /\ \A r \in 1..MaxRuns : WF_vars(Settle(r))

\* Sessions of every layout over the whole project tree, with the optional
\* steps off: the steps such sessions can take, with the files the watcher
\* finds during its scan and the file events it keeps silent about.
DispatchInit ==
    Start({a \in Argv : ~a.manifest /\ ~a.eval /\ ~a.serve}, FsPaths, FreshTree)

DispatchNext ==
    \/ ValidateOutfileName
    \/ ValidateFilePath
    \/ ValidateDirPath
    \/ Subscribe
    \/ OnReady
    \/ ReadyThen
    \/ \E r \in 1..Len(runs) : BundleResolve(r)
    \/ \E r \in 1..Len(runs) : BundleReject(r)
    \/ \E p \in FsPaths : InitialScan(p)
    \/ \E p \in FsPaths : OnAdd(p)
    \/ \E p \in FsPaths : OnChange(p)
    \/ \E p \in FsPaths : OnUnlink(p)
    \/ \E k \in {"add", "change", "unlink"}, p \in FsPaths : Unreported(k, p)
    \/ OnError

DispatchSpec == DispatchInit /\ [][DispatchNext]_vars

\* Source paths of every shape up to MaxSrcLen characters: with no separator,
\* with one, with several, with separators at either end or in a row.
RootSrcs == UNION {[1..n -> {"a", "/"}] : n \in 1..MaxSrcLen}

\* Sessions of every such source path, with the optional steps off and an empty
\* project: setup, the 'ready' run and watcher errors.
RootInit ==
    Start({[src |-> s, dist |-> S_dist, outfileName |-> NoPath,
            manifest |-> FALSE, eval |-> FALSE, serve |-> FALSE] : s \in RootSrcs},
          {}, {})

RootNext ==
    \/ ValidateOutfileName
    \/ ValidateFilePath
    \/ ValidateDirPath
    \/ Subscribe
    \/ OnReady
    \/ ReadyThen
    \/ \E r \in 1..Len(runs) : BundleResolve(r)
    \/ \E r \in 1..Len(runs) : BundleReject(r)
    \/ OnError

RootSpec == RootInit /\ [][RootNext]_vars

\* ------------------------------------------------------------------ claims

Runs == 1..Len(runs)
Ended(r) == runs[r].pc \in {"done", "failed"}
InFlight(r) == ~Ended(r)

\* The places of an event in the history of run r.
At(r, step, ev) == {i \in 1..Len(runs[r].hist) : runs[r].hist[i] = Ev(step, ev)}
Has(r, step, ev) == At(r, step, ev) # {}

\* C1: in every run the steps start in the order bundle, manifest, eval; the
\* manifest step starts only with the manifest flag set and after the bundle of
\* that run resolved; the eval step starts only with the eval flag set, after
\* the bundle resolved and, when the manifest flag is set, after the manifest
\* step resolved; no step starts twice and a step whose flag is unset never
\* starts.
C1_StepOrder ==
    \A r \in Runs :
        /\ \A step \in {"bundle", "manifest", "eval"} :
            Cardinality(At(r, step, "start")) <= 1
        /\ \A i \in At(r, "manifest", "start") :
            /\ argv.manifest
            /\ \E j \in At(r, "bundle", "start") : j < i
            /\ \E j \in At(r, "bundle", "ok") : j < i
        /\ \A i \in At(r, "eval", "start") :
            /\ argv.eval
            /\ \E j \in At(r, "bundle", "ok") : j < i
            /\ argv.manifest =>
                /\ \E j \in At(r, "manifest", "start") : j < i
                /\ \E j \in At(r, "manifest", "ok") : j < i
            /\ ~argv.manifest => ~Has(r, "manifest", "start")
        /\ ~argv.manifest => ~Has(r, "manifest", "start")
        /\ ~argv.eval => ~Has(r, "eval", "start")

\* A run that started its three steps, one after the other.
C1_Witness ==
    \E r \in Runs :
        /\ runs[r].pc = "eval"
        /\ Has(r, "bundle", "ok") /\ Has(r, "manifest", "ok")

\* C2: a failure ends the run: after a failed bundle neither the manifest nor
\* the eval step starts, after a failed manifest step the eval step does not
\* start, a failed run takes no further step, and the bundle at outfilePath is
\* only ever replaced by the bundle of another run, never removed.
C2_RunFailed(r) ==
    /\ Has(r, "bundle", "fail") =>
        ~Has(r, "manifest", "start") /\ ~Has(r, "eval", "start")
    /\ Has(r, "manifest", "fail") =>
        ~Has(r, "eval", "start") /\ artifact # 0
    /\ (\E step \in {"loadConfig", "bundle", "manifest", "eval"} :
            Has(r, step, "fail") \/ Has(r, step, "throw")) =>
        runs[r].pc = "failed"

C2_ShortCircuit ==
    /\ [](\A r \in Runs : C2_RunFailed(r))
    /\ [][/\ \A r \in Runs : runs[r].pc = "failed" => runs'[r] = runs[r]
          /\ artifact' # artifact =>
                /\ artifact' \in Runs
                /\ runs[artifact'].pc = "bundle"
                /\ runs'[artifact'].hist[Len(runs[artifact'].hist) + 1]
                       = Ev("bundle", "ok")]_vars

\* The manifest step of a run failed and the bundle of that run is at
\* outfilePath.
C2_Witness ==
    \E r \in Runs : Has(r, "manifest", "fail") /\ artifact = r /\ argv.eval

\* C3: a failed step never ends the session: whenever a run has failed the
\* session is Active, and as long as the event loop is free and the bounds
\* allow it, an 'add' and a 'change' of every reportable file can still be
\* handled, each starting a run.
C3_FailureContained ==
    (\E r \in Runs : runs[r].pc = "failed") =>
        /\ session = "Active"
        /\ (Idle /\ nEvents < MaxEvents /\ Len(runs) < MaxRuns) =>
            \A p \in DOMAIN tree \cap Reportable[Layout] :
                /\ Absent(p) => ENABLED (OnAdd(p) /\ Len(runs') = Len(runs) + 1)
                /\ Exists(p) => ENABLED (OnChange(p) /\ Len(runs') = Len(runs) + 1)

\* After the first run failed in one of its steps, a change started another.
C3_Witness ==
    /\ Len(runs) = 2
    /\ \E step \in {"bundle", "manifest", "eval"} : Has(1, step, "fail")
    /\ Ev("bundle", "start") = runs[2].hist[2]
    /\ runs[2].trigger = "change"

\* C4: 'ready' starts exactly one run, without a path and without an
\* announcement, and it is the first run of the session: no run exists while
\* the session is ReadyPending, and every other run comes from an 'add' or a
\* 'change'.
C4_ReadyRunFirst ==
    /\ session \in {"Initializing", "ReadyPending"} => runs = <<>>
    /\ session = "Active" => Len(runs) >= 1
    /\ \A r \in Runs :
        /\ runs[r].trigger = "ready" <=> r = 1
        /\ r = 1 => runs[r].path = NoPath /\ ~Has(r, "logMessage", "logInfo")
        /\ r > 1 => runs[r].trigger \in {"add", "change"}

\* The watcher found a file during its scan and emitted nothing, then 'ready'
\* started the first run and an 'add' the second.
C4_Witness ==
    /\ Len(runs) = 2
    /\ runs[1].trigger = "ready"
    /\ runs[2].trigger = "add"
    /\ nEvents = 2
    /\ log = <<Info("Watching", rootDir), Info("File added", lastEvent.path)>>

\* A watcher occurrence of one of the kinds happens in this step.
Occurring(kinds) == nEvents' = nEvents + 1 /\ lastEvent'.kind \in kinds

\* C5: serve is called at most once in a session, only with the serve flag set
\* and only once the 'ready' run has ended; the step that calls it is the .then
\* callback of the 'ready' chain, never the handling of a watcher occurrence.
C5_ServeOnce ==
    /\ [](/\ serveCalls <= 1
          /\ serveCalls > 0 => argv.serve /\ Len(runs) >= 1 /\ Ended(1)
          /\ server # "none" => serveCalls = 1)
    /\ [][/\ serveCalls' # serveCalls =>
                readyChain = "then" /\ nEvents' = nEvents /\ runs' = runs
          /\ Occurring({"initial", "add", "change", "unlink", "error"}) =>
                serveCalls' = serveCalls /\ server' = server]_vars

\* The server runs, started once, and two file events were handled since.
C5_Witness ==
    /\ serveCalls = 1
    /\ server = "running"
    /\ Len(runs) = 2
    /\ nEvents = MaxEvents
    /\ lastEvent.kind = "unlink"

\* C6 as claimed: serve is called only when some run has gone through all its
\* enabled steps.
C6_ServeOnlyAfterSuccess ==
    serveCalls > 0 => \E r \in Runs : runs[r].pc = "done"

\* C6 as amended: serve is called only once the 'ready' run has ended, and it
\* is called then whether that run went through or failed: with the serve flag
\* set, once the 'ready' run has ended and its .then callback has run, serve has
\* been called.
C6_ServeAfterReadyRunEnded ==
    /\ serveCalls > 0 => Len(runs) >= 1 /\ Ended(1)
    /\ (argv.serve /\ Len(runs) >= 1 /\ Ended(1) /\ Idle) => serveCalls = 1

\* The server was started although no run has gone through.
C6_Witness ==
    /\ serveCalls = 1
    /\ runs[1].pc = "failed"
    /\ \A r \in Runs : runs[r].pc # "done"

\* C7: with the serve flag set, once the 'ready' run has ended, with or without
\* a failure, serve is eventually called, and it is never called twice.
C7_ServeEventually ==
    /\ (argv.serve /\ Len(runs) >= 1 /\ Ended(1)) ~> (serveCalls = 1)
    /\ [](serveCalls <= 1)

\* The 'ready' run failed in its eval step and the server runs.
C7_Witness ==
    /\ argv.serve
    /\ Len(runs) >= 1
    /\ Has(1, "eval", "fail")
    /\ server = "running"

\* C8: the handling of an 'unlink' logs the removal and does nothing else: it
\* starts no run, takes no step of a run, does not call serve and leaves the
\* bundle alone.
C8_UnlinkOnlyAnnounces ==
    [][Occurring({"unlink"}) =>
          /\ log' = Append(log, Info("File removed", lastEvent'.path))
          /\ runs' = runs
          /\ readyChain' = readyChain
          /\ serveCalls' = serveCalls
          /\ server' = server
          /\ artifact' = artifact
          /\ session' = session]_vars

\* A file was removed while a run was in flight.
C8_Witness ==
    /\ lastEvent.kind = "unlink"
    /\ Len(runs) = 1
    /\ InFlight(1)
    /\ log[Len(log)] = Info("File removed", lastEvent.path)

\* C9: a watcher error is logged and nothing else happens: the session stays
\* as it is, no run starts and no run in flight is touched; and after any
\* number of watcher errors, as long as the event loop is free and the bounds
\* allow it, an 'add' and a 'change' of every reportable file can still be
\* handled, each starting a run.
C9_ErrorLogged == \E i \in 1..Len(log) : log[i] = Error("Watcher error", NoPath)

C9_WatcherErrorContained ==
    /\ [](C9_ErrorLogged =>
            /\ session \in {"ReadyPending", "Active"}
            /\ (session = "Active" /\ Idle /\ nEvents < MaxEvents
                    /\ Len(runs) < MaxRuns) =>
                \A p \in DOMAIN tree \cap Reportable[Layout] :
                    /\ Absent(p) =>
                        ENABLED (OnAdd(p) /\ Len(runs') = Len(runs) + 1)
                    /\ Exists(p) =>
                        ENABLED (OnChange(p) /\ Len(runs') = Len(runs) + 1))
    /\ [][Occurring({"error"}) =>
            /\ log' = Append(log, Error("Watcher error", NoPath))
            /\ runs' = runs
            /\ session' = session
            /\ readyChain' = readyChain
            /\ serveCalls' = serveCalls
            /\ server' = server
            /\ artifact' = artifact]_vars

\* A watcher error came while the first run was in flight, the run went on, and
\* a later 'change' started a second run.
C9_Witness ==
    /\ Len(runs) = 2
    /\ runs[2].trigger = "change"
    /\ Has(1, "bundle", "ok")
    /\ \E i \in 1..Len(log) :
        /\ log[i] = Error("Watcher error", NoPath)
        /\ \E j \in (i + 1)..Len(log) : log[j].text = "File changed"
        /\ \E j \in 1..(i - 1) : log[j].text = "Watching"

\* String.prototype.endsWith, used to state C10.
EndsWith(str, suffix) ==
    /\ Len(str) >= Len(suffix)
    /\ SubSeq(str, Len(str) - Len(suffix) + 1, Len(str)) = suffix

\* The paths C10 speaks of: a node_modules segment, a place under the output
\* directory, a place under a directory test or tests, a test-file name.
C10_Excluded(dist, path) ==
    LET segs == Split(path)
        dsegs == Split(dist)
    IN \/ \E i \in 1..Len(segs) : segs[i] = S_nm
       \/ Len(segs) > Len(dsegs) /\ SubSeq(segs, 1, Len(dsegs)) = dsegs
       \/ \E i \in 1..(Len(segs) - 1) : segs[i] \in {S_test, S_tests}
       \/ EndsWith(segs[Len(segs)], <<".", "t", "e", "s", "t", ".", "j", "s">>)
       \/ EndsWith(segs[Len(segs)], <<".", "t", "e", "s", "t", ".", "t", "s">>)

\* C10: a file event on an excluded path is never dispatched: no run has such
\* a path, no "File added" or "File changed" line names one, and the step in
\* which such a file is added or changed leaves the runs and the log as they
\* are.
C10_ExcludedNeverDispatched ==
    /\ [](/\ \A r \in Runs : ~C10_Excluded(argv.dist, runs[r].path)
          /\ \A i \in 1..Len(log) :
                log[i].text \in {"File added", "File changed"} =>
                    ~C10_Excluded(argv.dist, log[i].path))
    /\ [][(/\ Occurring({"initial", "add", "change"})
           /\ C10_Excluded(argv.dist, lastEvent'.path)) =>
                runs' = runs /\ log' = log /\ artifact' = artifact]_vars

\* The bundle of the first run was written and the file appeared under the
\* eyes of the watcher: no second run was started.
C10_Witness ==
    /\ lastEvent = [kind |-> "add", path |-> outfilePath]
    /\ artifact = 1
    /\ Len(runs) = 1
    /\ Len(log) = 1

\* The final segment of a path.
LastSegment(path) == Split(path)[Len(Split(path))]

\* The paths C11 speaks of: the final segment starts with "." and the path is
\* not the watched root itself.
C11_Dotfile(root, path) ==
    /\ path # root
    /\ path # <<".">>
    /\ StartsWith(LastSegment(path), <<".">>)

\* C11: a file event on a path whose final segment starts with "." is never
\* dispatched: no run has such a path and no "File added" or "File changed"
\* line names one; and the dotfile rule of `ignored` excludes no file whose
\* final segment does not start with ".".
C11_DotfilesExcluded ==
    /\ \A r \in Runs : ~C11_Dotfile(rootDir, runs[r].path)
    /\ \A i \in 1..Len(log) :
        log[i].text \in {"File added", "File changed"} =>
            ~C11_Dotfile(rootDir, log[i].path)
    /\ \A p \in DOMAIN tree : ~C11_Dotfile(rootDir, p) => ~IgnoredFn(p)

\* The root C12 describes: "." for a source path without a separator, else the
\* prefix of the source path that ends with its last separator.
C12_Root(src) ==
    IF \A i \in 1..Len(src) : src[i] # "/"
    THEN <<".">>
    ELSE CHOOSE p \in {SubSeq(src, 1, n) : n \in 1..Len(src)} :
            /\ p[Len(p)] = "/"
            /\ \A i \in (Len(p) + 1)..Len(src) : src[i] # "/"

\* C12: once setup is over the watched root is "." for a source path without
\* a separator and the source path up to and including its last separator
\* otherwise; the root and the output path are set in one step, the last of
\* setup, and no later step (the 'ready' run, a step of a run, a watcher
\* error) changes them.
C12_RootDerivedOnce ==
    /\ [](pc = "returned" =>
            /\ rootDir = C12_Root(argv.src)
            /\ outfilePath # NoPath)
    /\ [](pc # "returned" => rootDir = NoPath /\ outfilePath = NoPath)
    /\ [][(rootDir' # rootDir \/ outfilePath' # outfilePath) =>
            pc = "watch" /\ pc' = "returned"]_vars

\* A source path with two separators: the root ends with the second, and the
\* 'ready' run and a watcher error have come since.
C12_Witness ==
    /\ argv.src = <<"a", "/", "a", "/", "a">>
    /\ rootDir = <<"a", "/", "a", "/">>
    /\ Len(runs) = 1 /\ Ended(1)
    /\ lastEvent.kind = "error"

\* The validators watch calls for these arguments, in the order of the code.
C13_Order ==
    (IF argv.outfileName = NoPath THEN <<>> ELSE <<"validateOutfileName">>)
        \o <<"validateFilePath", "validateDirPath">>

\* Some validator found its argument invalid.
C13_Failed == \E i \in 1..Len(validations) : ~validations[i].valid

\* C13: the validators are called in the order output name (only when a name
\* was supplied), source path, output directory; once one of them fails the
\* error leaves watch: no later validator is called, the paths are not
\* computed, no watcher is created (the session never leaves Initializing and
\* nothing is logged), no run starts, serve is not called, and no further step
\* is taken.
C13_ValidationFatal ==
    /\ [](/\ Len(validations) <= Len(C13_Order)
          /\ \A i \in 1..Len(validations) : validations[i].fn = C13_Order[i]
          /\ \A i \in 1..(Len(validations) - 1) : validations[i].valid)
    /\ [](C13_Failed =>
            /\ pc = "threw"
            /\ session = "Initializing"
            /\ rootDir = NoPath /\ outfilePath = NoPath
            /\ runs = <<>>
            /\ serveCalls = 0 /\ server = "none"
            /\ log = <<>> /\ nEvents = 0)
    /\ [](session # "Initializing" =>
            /\ Len(validations) = Len(C13_Order)
            /\ \A i \in 1..Len(validations) : validations[i].valid)
    /\ [][C13_Failed => vars' = vars]_vars

\* An output name was supplied and found valid, then the source path was found
\* invalid: watch threw before validating the output directory.
C13_Witness ==
    /\ pc = "threw"
    /\ validations = <<Validated("validateOutfileName", TRUE),
                       Validated("validateFilePath", FALSE)>>

\* The runs in flight after the step.
C14_InFlightAfter == {r \in 1..Len(runs') : runs'[r].pc \notin {"done", "failed"}}

\* C14: every 'add' and 'change' that is handled starts a run in that very
\* step, whatever runs are in flight, and leaves those runs as they are; and
\* while a run is in flight and the event loop is free, a change of every
\* reportable file can be handled (within the bounds) and can leave two or
\* more runs in flight.
C14_NoMutualExclusion ==
    /\ [][Occurring({"add", "change"}) =>
            /\ Len(runs') = Len(runs) + 1
            /\ SubSeq(runs', 1, Len(runs)) = runs
            /\ runs'[Len(runs')].pc \in {"bundle", "failed"}
            /\ runs'[Len(runs')].path = lastEvent'.path]_vars
    /\ []((/\ session = "Active" /\ Idle
           /\ nEvents < MaxEvents /\ Len(runs) < MaxRuns
           /\ \E r \in Runs : InFlight(r)) =>
            \A p \in DOMAIN tree \cap Reportable[Layout] :
                Exists(p) =>
                    ENABLED (OnChange(p) /\ Cardinality(C14_InFlightAfter) >= 2))

\* The 'ready' run and the run of a later file event both wait for their
\* bundle, which each of them writes to outfilePath.
C14_Witness ==
    /\ Len(runs) = 2
    /\ runs[1].trigger = "ready" /\ runs[2].trigger \in {"add", "change"}
    /\ runs[1].pc = "bundle" /\ runs[2].pc = "bundle"
    /\ ENABLED BundleResolve(1) /\ ENABLED BundleResolve(2)

\* C15: the bundles of overlapping runs are written in any order: the bundle
\* at outfilePath is always the one of the run whose bundle step resolved last,
\* and while the event loop is free every run that waits for its bundle can be
\* the next to write it, whether runs called before or after it wait too. So
\* the bundle left when every run has ended need not be the one of the latest
\* event.
C15_NoArrivalOrder ==
    /\ [][artifact' # artifact =>
            /\ artifact' \in Runs
            /\ runs[artifact'].pc = "bundle"
            /\ runs'[artifact'].pc # "bundle"
            /\ Ev("bundle", "ok") =
                   runs'[artifact'].hist[Len(runs[artifact'].hist) + 1]]_vars
    /\ [](Idle =>
            \A r \in Runs :
                runs[r].pc = "bundle" =>
                    ENABLED (BundleResolve(r) /\ artifact' = r))

\* Both runs have ended, each wrote its bundle, and the bundle left at
\* outfilePath is the one of the first run, not of the run of the latest event.
C15_Witness ==
    /\ Len(runs) = 2
    /\ Ended(1) /\ Ended(2)
    /\ Has(1, "bundle", "ok") /\ Has(2, "bundle", "ok")
    /\ runs[2].trigger \in {"add", "change"}
    /\ artifact = 1

\* The step handles 'ready', or an 'add' or 'change' of a path that is not
\* excluded.
C16_Triggering ==
    \/ session = "ReadyPending" /\ session' = "Active"
    \/ /\ Occurring({"add", "change"})
       /\ lastEvent'.path \in Reportable[Layout]

\* The lines of the log that announce an 'add' or a 'change'.
C16_Announced == {i \in 1..Len(log) : log[i].text \in {"File added", "File changed"}}

\* C16: runs are started by triggering events and by nothing else, one run for
\* each: a step that handles 'ready' or a non-excluded 'add' or 'change' adds
\* exactly one run, whatever runs are in flight, and every other step (a step
\* of a run resolving or failing, the serve steps, 'unlink', a watcher error,
\* an excluded file event) adds none; so the number of runs is the number of
\* 'ready' events handled plus the number of 'add' and 'change' events
\* announced.
C16_NoRetryNoCoalescing ==
    /\ [][/\ Len(runs') = Len(runs) + (IF C16_Triggering THEN 1 ELSE 0)
          /\ \A r \in Runs :
                /\ runs'[r].trigger = runs[r].trigger
                /\ runs'[r].path = runs[r].path]_vars
    /\ [](Len(runs) = (IF session = "Active" THEN 1 ELSE 0)
                          + Cardinality(C16_Announced))

\* The first run failed and nothing followed from that; of two file events
\* since, one was excluded and the other started the second run.
C16_Witness ==
    /\ Len(runs) = 2
    /\ Has(1, "bundle", "fail")
    /\ runs[2].trigger = "change"
    /\ nEvents = 2
    /\ lastEvent.path \in Silenced[Layout]

\* C17: a run in flight is touched by nothing but the settling of the step it
\* awaits: whenever the record of a run changes, the step it waited for has
\* resolved or rejected in that step, no watcher occurrence is handled in it,
\* serve is neither called nor settled in it and every other run is left as it
\* is; and every run that was started eventually ends, done or failed.
C17_NoCancellation ==
    /\ [][\A r \in Runs :
            runs'[r] # runs[r] =>
                /\ InFlight(r)
                /\ Len(runs'[r].hist) > Len(runs[r].hist)
                /\ SubSeq(runs'[r].hist, 1, Len(runs[r].hist)) = runs[r].hist
                /\ runs'[r].hist[Len(runs[r].hist) + 1]
                       \in {Ev(runs[r].pc, "ok"), Ev(runs[r].pc, "fail")}
                /\ nEvents' = nEvents
                /\ serveCalls' = serveCalls /\ server' = server
                /\ Len(runs') = Len(runs)
                /\ \A q \in Runs \ {r} : runs'[q] = runs[q]]_vars
    /\ \A r \in 1..MaxRuns :
            (Len(runs) >= r) ~> (Len(runs) >= r /\ Ended(r))

\* The second run has gone through its first two steps and waits for the
\* third, although the first run failed, the server failed to start and a
\* watcher error was handled since the second run began.
C17_Witness ==
    /\ Len(runs) = 2
    /\ runs[1].pc = "failed"
    /\ server = "failed"
    /\ runs[2].pc = "eval"
    /\ lastEvent.kind = "error"

\* The report C18 expects of a failure of a run.
C18_Report(run) ==
    IF run.trigger = "ready"
    THEN [level |-> "error", text |-> "Error during initial build.",
          path |-> NoPath]
    ELSE [level |-> "error", text |-> "Error while processing",
          path |-> run.path]

\* The announcement C18 expects of the event that started a run.
C18_Announcement(run) ==
    [level |-> "info",
     text |-> IF run.trigger = "add" THEN "File added" ELSE "File changed",
     path |-> run.path]

\* C18: the step that handles an 'add' or a 'change' logs the announcement of
\* the event, naming its path, and the run it starts has that path and begins
\* with the announcement, before its bundle step (or the loadConfig that comes
\* with it); the 'ready' run has no path and no announcement. When a run
\* fails, in the step it fails one error line is logged: for an 'add' or
\* 'change' run it names the path of its event, for the 'ready' run it is the
\* initial-build line without a path.
C18_AnnouncedAndAttributed ==
    /\ [](\A r \in Runs :
            IF runs[r].trigger = "ready"
            THEN /\ runs[r].path = NoPath
                 /\ ~Has(r, "logMessage", "logInfo")
            ELSE /\ runs[r].path # NoPath
                 /\ runs[r].hist[1] = Ev("logMessage", "logInfo")
                 /\ \A i \in At(r, "bundle", "start")
                                \cup At(r, "loadConfig", "throw") : i > 1
                 /\ \E i \in 1..Len(log) : log[i] = C18_Announcement(runs[r]))
    /\ [][/\ Len(runs') > Len(runs) =>
                LET n == Len(runs') IN
                /\ runs'[n].trigger # "ready" =>
                    /\ runs'[n].path = lastEvent'.path
                    /\ log'[Len(log) + 1] = C18_Announcement(runs'[n])
                /\ runs'[n].pc = "failed" =>
                    log'[Len(log')] = C18_Report(runs'[n])
                /\ Len(log') = Len(log)
                                 + (IF runs'[n].trigger = "ready" THEN 0 ELSE 1)
                                 + (IF runs'[n].pc = "failed" THEN 1 ELSE 0)
          /\ \A r \in Runs :
                (runs[r].pc # "failed" /\ runs'[r].pc = "failed") =>
                    log' = Append(log, C18_Report(runs[r]))]_vars

\* A change was announced while the 'ready' run was in flight; then the 'ready'
\* run failed and was reported as an initial-build failure, and the run of the
\* change failed in its manifest step and was reported with its path.
C18_Witness ==
    /\ Len(runs) = 2
    /\ Has(1, "bundle", "fail")
    /\ Has(2, "manifest", "fail")
    /\ log = <<Info("Watching", rootDir),
               Info("File changed", runs[2].path),
               Error("Error during initial build.", NoPath),
               Error("Error while processing", runs[2].path)>>
    /\ runs[2].path = Join(<<S_src, S_ijs>>)

\* C19: when serve fails, that step logs one error line and changes neither
\* the session nor any run; from then on the server stays failed and serve is
\* never called again, the session is Active, and as long as the event loop is
\* free and the bounds allow it an 'add' and a 'change' of every reportable
\* file can still be handled, each starting a run.
C19_ServeFailureContained ==
    /\ [](server = "failed" =>
            /\ session = "Active"
            /\ serveCalls = 1
            /\ \E i \in 1..Len(log) : log[i].level = "error"
            /\ (Idle /\ nEvents < MaxEvents /\ Len(runs) < MaxRuns) =>
                \A p \in DOMAIN tree \cap Reportable[Layout] :
                    /\ Absent(p) =>
                        ENABLED (OnAdd(p) /\ Len(runs') = Len(runs) + 1)
                    /\ Exists(p) =>
                        ENABLED (OnChange(p) /\ Len(runs') = Len(runs) + 1))
    /\ [][/\ server = "failed" =>
                server' = "failed" /\ serveCalls' = serveCalls
          /\ (server # "failed" /\ server' = "failed") =>
                /\ server = "starting"
                /\ Len(log') = Len(log) + 1
                /\ log'[Len(log')].level = "error"
                /\ session' = session
                /\ runs' = runs]_vars

\* The 'ready' run went through, serve failed and was reported, and a later
\* change started the second run; serve was called once.
C19_Witness ==
    /\ server = "failed"
    /\ serveCalls = 1
    /\ Len(runs) = 2
    /\ runs[1].pc = "done"
    /\ runs[2].pc = "bundle"
    /\ log = <<Info("Watching", rootDir),
               Error("Error during initial build.", NoPath),
               Info("File changed", runs[2].path)>>

\* The lines of the log that report a failure with this path (NoPath for the
\* initial-build line).
C20_Reports(path) ==
    {i \in 1..Len(log) :
        /\ log[i].level = "error"
        /\ log[i].path = path
        /\ log[i].text = IF path = NoPath THEN "Error during initial build."
                         ELSE "Error while processing"}

\* The runs with this path that have failed.
C20_Failed(path) == {r \in Runs : runs[r].path = path /\ runs[r].pc = "failed"}

\* C20: every failed run is reported once, by the catch block of buildSnap and
\* by nothing else: a run has failed exactly when one of loadConfig, bundle,
\* manifest or eval failed in it, its history then holds the catch block once
\* and never the .catch of a handler, and for every path the error lines that
\* name it are as many as the failed runs of that path; the initial-build
\* lines are as many as the failures of the 'ready' run and of serve together.
\* The .catch of the 'ready' chain runs only for a failure of serve.
C20_OneReportPerFailure ==
    /\ \A r \in Runs :
        /\ runs[r].pc = "failed" <=>
            \E step \in {"bundle", "manifest", "eval"} : Has(r, step, "fail")
                \/ Has(r, "loadConfig", "throw")
        /\ Cardinality(At(r, "catch", "logError"))
               = (IF runs[r].pc = "failed" THEN 1 ELSE 0)
        /\ ~Has(r, "handler.catch", "logError")
    /\ \A p \in DOMAIN tree :
        Cardinality(C20_Reports(p)) = Cardinality(C20_Failed(p))
    /\ Cardinality(C20_Reports(NoPath))
           = Cardinality(C20_Failed(NoPath)) + (IF server = "failed" THEN 1 ELSE 0)
    /\ readyChain = "caught" <=> server = "failed"

\* The 'ready' run failed in its eval step and the run of a change failed at
\* once in loadConfig: two failures, two error lines.
C20_Witness ==
    /\ Len(runs) = 2
    /\ Has(1, "eval", "fail")
    /\ Has(2, "loadConfig", "throw")
    /\ Cardinality({i \in 1..Len(log) : log[i].level = "error"}) = 2
    /\ Cardinality(C20_Reports(runs[2].path)) = 1
    /\ readyChain = "fulfilled"

====
